---- MODULE Spec2Model ----
(***************************************************************************)
(* Job processor backend: the job lifecycle (POST /jobs, GET /jobs,        *)
(* GET /jobs/:id, POST /jobs/webhook/callback), the webhook authenticator  *)
(* and the mock n8n worker (a timer that calls the webhook; it fires at    *)
(* some moment after it was set, the model does not measure its 5 s).      *)
(*                                                                         *)
(* Strings are run-length encoded: a string is a sequence of runs          *)
(* [c |-> character, n |-> repetitions], adjacent runs having different    *)
(* characters, so that a 5000 character prompt is one run.                 *)
(* A JavaScript value is a record tagged with its typeof.                  *)
(* Every request handler is cut at its awaits: the synchronous part up to  *)
(* the storage call, the storage call itself (atomic in the store), and    *)
(* the continuation that sends the response.                               *)
(***************************************************************************)
EXTENDS Integers, Sequences, FiniteSets, Bags, TLC

VARIABLES
    env,      \* process.env: [WEBHOOK_SECRET, PORT], read once at module load
    jobs,     \* the Job collection, in insertion order; the id of jobs[k] is ObjectIdString(k)
    now,      \* the wall clock
    timers,   \* the job ids of the pending setTimeout callbacks of simulateN8nCallback
    fired,    \* the job ids whose setTimeout callback has run
    reqs,     \* the bag of requests suspended at an await
    resp,     \* the response the last step sent, NoResponse when it sent none
    acked,    \* the client's note of the last 200 its callback was answered with
    app,      \* the frontend: the state of the App component and its pending fetches
    boot      \* startServer: where it is, its retries, and whether the server listens

vars == <<env, jobs, now, timers, fired, reqs, resp, acked, app, boot>>

----------------------------------------------------------------------------
(* Bounds *)

MaxJobs == 2
MaxInFlight == 2
MaxRuns == 3
MaxTime == 1

----------------------------------------------------------------------------
(* Program constants *)

minlength == 1
maxlength == 5000
fetchPort == 3000
defaultPort == 3000
apiBasePort == 3000
maxRetries == 30
firstDelay == 1000
maxDelay == 30000

----------------------------------------------------------------------------
(* Strings and JavaScript values *)

Whitespace == {" "}
HexDigits == {"0", "1", "2", "3", "4", "5", "6", "7", "8", "9", "a", "b", "c", "d", "e", "f"}
Digit == <<"1", "2", "3", "4", "5", "6", "7", "8", "9">>

Run(c, n) == [c |-> c, n |-> n]

RECURSIVE Length(_)
Length(s) == IF s = <<>> THEN 0 ELSE Head(s).n + Length(Tail(s))

RECURSIVE TrimStart(_)
TrimStart(s) ==
    IF s # <<>> /\ Head(s).c \in Whitespace THEN TrimStart(Tail(s)) ELSE s

RECURSIVE TrimEnd(_)
TrimEnd(s) ==
    IF s # <<>> /\ s[Len(s)].c \in Whitespace
    THEN TrimEnd(SubSeq(s, 1, Len(s) - 1))
    ELSE s

\* mutant of Trim: only the leading whitespace removed
TrimLeadingOnly(s) == TrimStart(s)

Trim(s) == TrimEnd(TrimStart(s))

Undefined == [t |-> "undefined"]
Str(s) == [t |-> "string", s |-> s]
Num(k) == [t |-> "number", k |-> k]

\* JavaScript !v
Falsy(v) ==
    \/ v.t = "undefined"
    \/ v.t = "string" /\ v.s = <<>>
    \/ v.t = "number" /\ v.k = 0

Null == [t |-> "null"]

\* a string literal without repeated adjacent characters, one run per character
Chars(cs) == [i \in DOMAIN cs |-> Run(cs[i], 1)]

\* the concatenation of two run-length encoded strings
Join(s, u) ==
    IF s # <<>> /\ u # <<>> /\ s[Len(s)].c = Head(u).c
    THEN SubSeq(s, 1, Len(s) - 1) \o <<Run(Head(u).c, s[Len(s)].n + Head(u).n)>> \o Tail(u)
    ELSE s \o u

DecimalDigit(d) == IF d = 0 THEN "0" ELSE Digit[d]

\* Number.prototype.toString of a natural number
RECURSIVE NumberToString(_)
NumberToString(k) ==
    IF k < 10
    THEN <<Run(DecimalDigit(k), 1)>>
    ELSE Join(NumberToString(k \div 10), <<Run(DecimalDigit(k % 10), 1)>>)

\* the cast of a value to a path of type String: a string as it is, a number
\* by its toString
CastString(v) ==
    IF v.t = "number" THEN Str(NumberToString(v.k)) ELSE v

devSecretKey ==
    Chars(<<"d", "e", "v", "-", "s", "e", "c", "r", "e", "t", "-", "k", "e", "y">>)

----------------------------------------------------------------------------
(* Configuration *)

\* const SHARED_SECRET = process.env.WEBHOOK_SECRET || 'dev-secret-key'
SHARED_SECRET ==
    IF Falsy(env.WEBHOOK_SECRET) THEN Str(devSecretKey) ELSE env.WEBHOOK_SECRET

\* mutant of WEBHOOK_SECRET: the environment's value without a default
WebhookSecretNoDefault == env.WEBHOOK_SECRET

\* const WEBHOOK_SECRET = process.env.WEBHOOK_SECRET || 'dev-secret-key'
WEBHOOK_SECRET ==
    IF Falsy(env.WEBHOOK_SECRET) THEN Str(devSecretKey) ELSE env.WEBHOOK_SECRET

\* const PORT = process.env.PORT || 3000
PORT == IF Falsy(env.PORT) THEN defaultPort ELSE env.PORT.k

----------------------------------------------------------------------------
(* The Job model *)

JobStatus == [PENDING |-> "PENDING", COMPLETED |-> "COMPLETED", FAILED |-> "FAILED"]

\* job._id.toString(): 24 hexadecimal characters
ObjectIdString(k) == <<Run("0", 23), Run(Digit[k], 1)>>

\* the strings mongoose casts to an ObjectId; any other string is a CastError
IsObjectIdString(s) ==
    /\ Length(s) = 24
    /\ \A i \in DOMAIN s : s[i].c \in HexDigits

\* the stored documents whose _id is the given string
Matching(s) == {k \in DOMAIN jobs : ObjectIdString(k) = s}

\* mutants of NewJob: every document given the first id; a schema whose result
\* defaults to the empty string
NewJobFirstId(k, prompt, status, t) ==
    [id |-> 1, prompt |-> prompt, status |-> status, result |-> Null,
     createdAt |-> t, updatedAt |-> t]

NewJobEmptyResult(k, prompt, status, t) ==
    [id |-> k, prompt |-> prompt, status |-> status, result |-> Str(<<>>),
     createdAt |-> t, updatedAt |-> t]

\* a new document as Job.create stores it: schema defaults and timestamps
NewJob(k, prompt, status, t) ==
    [id |-> k, prompt |-> prompt, status |-> status, result |-> Null,
     createdAt |-> t, updatedAt |-> t]

\* mutant of PromptValid: a schema without maxlength
PromptValidNoMax(prompt) == Length(prompt) >= minlength

\* schema validation of prompt: required, minlength 1, maxlength 5000
PromptValid(prompt) ==
    /\ Length(prompt) >= minlength
    /\ Length(prompt) <= maxlength

\* mutants of Updated: the status written without the result; the result
\* trimmed; the first result kept; updatedAt reset; a job that is already
\* completed marked failed
UpdatedStatusOnly(job, result, t) ==
    [job EXCEPT !.status = JobStatus.COMPLETED, !.updatedAt = t]

UpdatedTrimmed(job, result, t) ==
    [job EXCEPT !.status = JobStatus.COMPLETED, !.result = Str(Trim(result.s)),
                !.updatedAt = t]

UpdatedKeepsFirst(job, result, t) ==
    IF job.status = JobStatus.PENDING
    THEN [job EXCEPT !.status = JobStatus.COMPLETED, !.result = result, !.updatedAt = t]
    ELSE [job EXCEPT !.updatedAt = t]

UpdatedAtEpoch(job, result, t) ==
    [job EXCEPT !.status = JobStatus.COMPLETED, !.result = result, !.updatedAt = 0]

UpdatedOnceOnly(job, result, t) ==
    IF job.status = JobStatus.PENDING
    THEN [job EXCEPT !.status = JobStatus.COMPLETED, !.result = result, !.updatedAt = t]
    ELSE [job EXCEPT !.status = JobStatus.FAILED, !.updatedAt = t]

\* the document replaced by the update, its prompt and createdAt lost
UpdatedWholeDocument(job, result, t) ==
    [job EXCEPT !.status = JobStatus.COMPLETED, !.result = result, !.updatedAt = t,
                !.prompt = <<>>, !.createdAt = t]

\* a completed job put back to pending
UpdatedToggles(job, result, t) ==
    IF job.status = JobStatus.PENDING
    THEN [job EXCEPT !.status = JobStatus.COMPLETED, !.result = result, !.updatedAt = t]
    ELSE [job EXCEPT !.status = JobStatus.PENDING, !.result = Null, !.updatedAt = t]

\* a result appended to the one a completed job already has
UpdatedAppends(job, result, t) ==
    IF job.status = JobStatus.PENDING
    THEN [job EXCEPT !.status = JobStatus.COMPLETED, !.result = result, !.updatedAt = t]
    ELSE [job EXCEPT !.result = Str(Join(job.result.s, result.s)), !.updatedAt = t]

\* the $set of findByIdAndUpdate, applied to one document in one storage step
Updated(job, result, t) ==
    [job EXCEPT !.status = JobStatus.COMPLETED, !.result = result, !.updatedAt = t]

\* JSON.stringify({success, message: `Processed job: ${jobId}`, timestamp})
MockResult(jobId, t) ==
    <<Run("{", 1)>> \o jobId \o <<Run("T", t + 1), Run("}", 1)>>

----------------------------------------------------------------------------
(* Inputs *)

Times == 0 .. MaxTime

PromptChars == {" ", "a"}
PromptCounts == {1, maxlength, maxlength + 1}

\* run-length encoded strings of at most n runs over the given characters
RECURSIVE RunStrings(_, _, _)
RunStrings(n, chars, counts) ==
    IF n = 0 THEN {<<>>}
    ELSE LET shorter == RunStrings(n - 1, chars, counts)
         IN  shorter \cup
             {Append(s, Run(c, k)) : s \in shorter, c \in chars, k \in counts}

Canonical(s) == \A i \in 1 .. Len(s) - 1 : s[i].c # s[i + 1].c

PromptStrings ==
    {s \in RunStrings(MaxRuns, PromptChars, PromptCounts) : Canonical(s)}

\* the request bodies of POST /jobs
Prompts == {Undefined, Num(0), Num(7)} \cup {Str(s) : s \in PromptStrings}

\* a few of them, for the runs that interleave all the routes
SamplePrompts ==
    {Undefined, Str(<<Run(" ", 1), Run("a", 1), Run(" ", 1)>>),
     Str(<<Run("a", maxlength + 1)>>)}

okResult == Chars(<<"o", "k">>)
paddedResult == <<Run(" ", 1), Run("o", 1), Run(" ", 1)>>

Results == {Undefined, Str(<<>>), Str(okResult), Str(paddedResult), Num(0), Num(7)}

malformedId == Chars(<<"a", "b", "c">>)

IdStrings == {ObjectIdString(k) : k \in 1 .. MaxJobs + 1} \cup {malformedId}

JobIds == {Undefined, Str(<<>>)} \cup {Str(s) : s \in IdStrings}

otherSecret == Chars(<<"s", "3">>)
upperSecret == Chars(<<"S", "3">>)

EnvSecrets == {Undefined, Str(<<>>), Str(otherSecret)}
EnvPorts == {Undefined, Num(8080)}

Headers ==
    {Undefined, Str(<<>>), Str(devSecretKey), Str(otherSecret), Str(upperSecret)}

\* the requests to POST /jobs/webhook/callback: header and body
Callbacks == [secret : Headers, jobId : JobIds, result : Results]

\* a few of them, for the runs that interleave all the routes: the secret
\* missing, wrong or right; the job id missing, stored or not, or malformed;
\* the result empty or not
SampleCallbacks ==
    {[secret |-> Undefined, jobId |-> Undefined, result |-> Str(<<>>)],
     [secret |-> Str(upperSecret), jobId |-> Str(ObjectIdString(1)),
      result |-> Str(okResult)],
     [secret |-> Str(otherSecret), jobId |-> Str(malformedId),
      result |-> Str(okResult)],
     [secret |-> Str(devSecretKey), jobId |-> Str(ObjectIdString(1)),
      result |-> Str(<<>>)],
     [secret |-> Str(devSecretKey), jobId |-> Str(ObjectIdString(1)),
      result |-> Str(paddedResult)],
     [secret |-> Str(devSecretKey), jobId |-> Str(ObjectIdString(1)),
      result |-> Str(okResult)],
     [secret |-> Str(devSecretKey), jobId |-> Str(ObjectIdString(2)),
      result |-> Str(paddedResult)],
     [secret |-> Str(devSecretKey), jobId |-> Str(malformedId),
      result |-> Str(paddedResult)]}

\* the tokens presented to the authenticator: none, the empty one, each secret
\* that can be configured, and for each of them a token in another case, a
\* proper prefix, and the secret between spaces
Padded(s) == Join(<<Run(" ", 1)>>, Join(s, <<Run(" ", 1)>>))

AuthHeaders ==
    Headers \cup
    {Str(<<Run("D", 1)>> \o Tail(devSecretKey)),
     Str(SubSeq(devSecretKey, 1, Len(devSecretKey) - 1)),
     Str(SubSeq(otherSecret, 1, Len(otherSecret) - 1)),
     Str(Padded(devSecretKey)),
     Str(Padded(otherSecret))}

\* the bodies sent with them: jobId and result missing or not, the job stored
\* or not
AuthCallbacks ==
    [secret : AuthHeaders,
     jobId : {Undefined, Str(ObjectIdString(1)), Str(ObjectIdString(2))},
     result : {Undefined, Str(okResult)}]

----------------------------------------------------------------------------
(* State *)

NoResponse ==
    [origin |-> "none", op |-> "none", req |-> Null, code |-> 0, body |-> Null,
     trace |-> <<>>, log |-> "none"]

\* the App component as useState initialises it, before its effects run:
\* no fetchJobs and no handleSubmit suspended at its fetch. jobs is the list
\* on display, captured the list the running handleSubmit was created with
Text(m) == [t |-> "string", text |-> m]

Mounting ==
    [jobs |-> <<>>, prompt |-> <<>>, isLoading |-> FALSE, error |-> Null,
     networkError |-> FALSE, polls |-> 0, submits |-> 0, captured |-> <<>>]

\* startServer has connected at its first attempt and the server listens
Listening ==
    [pc |-> "listening", retries |-> 0, delay |-> 0, listening |-> TRUE,
     exitCode |-> Null]

\* the process starts with an empty collection under some configuration
Start(configurations) ==
    /\ env \in configurations
    /\ jobs = <<>>
    /\ now = 0
    /\ timers = {}
    /\ fired = {}
    /\ reqs = EmptyBag
    /\ resp = NoResponse
    /\ acked = Null
    /\ app = Mounting
    /\ boot = Listening

Init == Start([WEBHOOK_SECRET : EnvSecrets, PORT : EnvPorts])

\* no WEBHOOK_SECRET and no PORT in the environment
InitDefault == Start({[WEBHOOK_SECRET |-> Undefined, PORT |-> Undefined]})

\* a response: who asked, on which route, with what request, and the status
\* code, the JSON body, the code that ran for it and what console.error logged
Response(origin, op, req, code, body, trace, log) ==
    [origin |-> origin, op |-> op, req |-> req, code |-> code, body |-> body,
     trace |-> trace, log |-> log]

\* mutant of ErrorBody: the body tells what was thrown
ErrorBodyWithDetail(message) == [error |-> message, detail |-> "MongoError"]

ErrorBody(message) == [error |-> message]

\* what an awaited storage call hands back to its handler
Doc(d) == [kind |-> "doc", doc |-> d]
NoDoc == [kind |-> "null"]
Throws(e) == [kind |-> "throw", error |-> e]

InFlight == BagToSet(reqs)

\* a handler reaches its await, moves past it, or returns
Suspend(r) ==
    /\ BagCardinality(reqs) < MaxInFlight
    /\ reqs' = reqs (+) SetToBag({r})
Resume(r, r2) == reqs' = (reqs (-) SetToBag({r})) (+) SetToBag({r2})

\* mutant of Return: the handler does not return after it has responded
ReturnKeeps(r) == UNCHANGED reqs

Return(r) == reqs' = reqs (-) SetToBag({r})

----------------------------------------------------------------------------
(* POST /jobs *)

\* router.post('/'): the validation, up to the await of Job.create. The
\* timestamps plugin reads the clock in the process, when the call is made (at)
PostJobs(prompt) ==
    /\ IF Falsy(prompt) \/ prompt.t # "string" \/ Length(Trim(prompt.s)) = 0
       THEN /\ resp' = Response("client", "create", [prompt |-> prompt], 400,
                   ErrorBody("Invalid request: prompt is required and must be a non-empty string"),
                   <<"handler">>, "none")
            /\ UNCHANGED reqs
       ELSE /\ Suspend([op |-> "create", pc |-> "Job.create",
                        req |-> [prompt |-> prompt], prompt |-> Trim(prompt.s),
                        at |-> now])
            /\ resp' = NoResponse
    /\ UNCHANGED <<boot, env, jobs, now, timers, fired, acked, app>>

\* Job.create: schema validation, then the insert, createdAt and updatedAt
\* being the reading the process took
JobCreate(r, fails) ==
    /\ r.op = "create"
    /\ r.pc = "Job.create"
    /\ LET done(ret) == Resume(r, [op |-> "create", pc |-> "created", req |-> r.req,
                                    ret |-> ret])
       IN  IF ~PromptValid(r.prompt)
           THEN done(Throws("ValidationError")) /\ UNCHANGED jobs
           ELSE IF fails
           THEN done(Throws("MongoError")) /\ UNCHANGED jobs
           ELSE /\ Len(jobs) < MaxJobs
                /\ LET job == NewJob(Len(jobs) + 1, r.prompt, JobStatus.PENDING, r.at)
                   IN  jobs' = Append(jobs, job) /\ done(Doc(job))
    /\ resp' = NoResponse
    /\ UNCHANGED <<boot, env, now, timers, fired, acked, app>>

\* mutants of simulateN8nCallback: no timer is set; the timer is set for the
\* id the next job will get
simulateNothing(jobId) == UNCHANGED timers

simulateForNextJob(jobId) == timers' = timers \cup {ObjectIdString(Len(jobs) + 1)}

\* simulateN8nCallback: setTimeout(..., 5000)
simulateN8nCallback(jobId) ==
    timers' = timers \cup {jobId}

\* router.post('/'): after the await, schedule the mock worker and answer
PostJobsResume(r) ==
    /\ r.op = "create"
    /\ r.pc = "created"
    /\ IF r.ret.kind = "throw"
       THEN /\ resp' = Response("client", "create", r.req, 500,
                   ErrorBody("Failed to create job"), <<"handler", "Job.create">>,
                   r.ret.error)
            /\ UNCHANGED timers
       ELSE /\ simulateN8nCallback(ObjectIdString(r.ret.doc.id))
            /\ resp' = Response("client", "create", r.req, 201,
                   [id |-> r.ret.doc.id, prompt |-> r.ret.doc.prompt,
                    status |-> r.ret.doc.status, createdAt |-> r.ret.doc.createdAt],
                   <<"handler", "Job.create">>, "none")
    /\ Return(r)
    /\ UNCHANGED <<boot, env, jobs, now, fired, acked, app>>

----------------------------------------------------------------------------
(* POST /jobs/webhook/callback *)

\* mutants of validateWebhookSecret: any token passes; a missing header passes;
\* the token is trimmed before the comparison; every token is denied while
\* the collection is empty
validateWebhookSecretAnyToken(secret) == ~Falsy(secret)

validateWebhookSecretOnceJobsExist(secret) ==
    jobs # <<>> /\ ~Falsy(secret) /\ secret = SHARED_SECRET

validateWebhookSecretTrimmed(secret) ==
    ~Falsy(secret) /\ Str(Trim(secret.s)) = SHARED_SECRET

validateWebhookSecretIfPresent(secret) == Falsy(secret) \/ secret = SHARED_SECRET

\* validateWebhookSecret: TRUE when the middleware calls next()
validateWebhookSecret(secret) ==
    ~(Falsy(secret) \/ secret # SHARED_SECRET)

\* the middleware and the handler's validation, up to the await of
\* Job.findByIdAndUpdate, for a request from the given origin
Callback(origin, req) ==
    IF ~validateWebhookSecret(req.secret)
    THEN /\ resp' = Response(origin, "callback", req, 401,
                ErrorBody("Unauthorized: Invalid or missing webhook secret"),
                <<"validateWebhookSecret">>, "none")
         /\ UNCHANGED reqs
    ELSE IF Falsy(req.jobId) \/ Falsy(req.result)
    THEN /\ resp' = Response(origin, "callback", req, 400,
                ErrorBody("Invalid request: jobId and result are required"),
                <<"validateWebhookSecret", "handler">>, "none")
         /\ UNCHANGED reqs
    ELSE /\ Suspend([op |-> "callback", pc |-> "Job.findByIdAndUpdate",
                     origin |-> origin, req |-> req, at |-> now])
         /\ resp' = NoResponse

\* a client's POST /jobs/webhook/callback
PostCallback(req) ==
    /\ Callback("client", req)
    /\ UNCHANGED <<boot, env, jobs, now, timers, fired, acked, app>>

\* Job.findByIdAndUpdate(jobId, {status: COMPLETED, result}, {new: true}): the
\* update carries the updatedAt the process read when it made the call, and
\* the store applies the updates in the order they reach it
FindByIdAndUpdate(r, fails) ==
    /\ r.op = "callback"
    /\ r.pc = "Job.findByIdAndUpdate"
    /\ LET found == Matching(r.req.jobId.s)
           done(ret) == Resume(r, [r EXCEPT !.pc = "updated"] @@ [ret |-> ret])
       IN  IF ~IsObjectIdString(r.req.jobId.s)
           THEN done(Throws("CastError")) /\ UNCHANGED jobs
           ELSE IF fails
           THEN done(Throws("MongoError")) /\ UNCHANGED jobs
           ELSE IF found = {}
           THEN done(NoDoc) /\ UNCHANGED jobs
           ELSE \E k \in found :
                    /\ jobs' = [jobs EXCEPT
                                   ![k] = Updated(jobs[k], CastString(r.req.result), r.at)]
                    /\ done(Doc(jobs'[k]))
    /\ resp' = NoResponse
    /\ UNCHANGED <<boot, env, now, timers, fired, acked, app>>

\* the handler after the await: 404, 200 or 500
PostCallbackResume(r) ==
    /\ r.op = "callback"
    /\ r.pc = "updated"
    /\ LET trace == <<"validateWebhookSecret", "handler", "Job.findByIdAndUpdate">>
       IN  IF r.ret.kind = "throw"
           THEN resp' = Response(r.origin, "callback", r.req, 500,
                       ErrorBody("Failed to update job"), trace, r.ret.error)
           ELSE IF r.ret.kind = "null"
           THEN resp' = Response(r.origin, "callback", r.req, 404,
                       ErrorBody("Job not found"), trace, "none")
           ELSE resp' = Response(r.origin, "callback", r.req, 200,
                       [id |-> r.ret.doc.id, prompt |-> r.ret.doc.prompt,
                        status |-> r.ret.doc.status, result |-> r.ret.doc.result,
                        updatedAt |-> r.ret.doc.updatedAt],
                       trace, "none")
    /\ Return(r)
    /\ UNCHANGED <<boot, env, jobs, now, timers, fired, acked, app>>

----------------------------------------------------------------------------
(* The mock n8n worker *)

\* mutant of MockCallback: a fetch that fails leaves the timer set, to fire again
MockCallbackRetrying(jobId) ==
    /\ jobId \in timers
    /\ timers' = IF PORT = fetchPort THEN timers \ {jobId} ELSE timers
    /\ fired' = fired \cup {jobId}
    /\ IF PORT = fetchPort
       THEN Callback("mock", [secret |-> WEBHOOK_SECRET, jobId |-> Str(jobId),
                              result |-> Str(MockResult(jobId, now))])
       ELSE /\ resp' = Response("mock", "fetch", [jobId |-> Str(jobId)], 0,
                   ErrorBody("Error in mock n8n callback"), <<>>, "fetch failed")
            /\ UNCHANGED reqs
    /\ UNCHANGED <<boot, env, jobs, now, acked, app>>

\* the timer callback of simulateN8nCallback: build the result and fetch
\* http://localhost:3000/jobs/webhook/callback
MockCallback(jobId) ==
    /\ jobId \in timers
    /\ timers' = timers \ {jobId}
    /\ fired' = fired \cup {jobId}
    /\ IF PORT = fetchPort
       THEN Callback("mock", [secret |-> WEBHOOK_SECRET, jobId |-> Str(jobId),
                              result |-> Str(MockResult(jobId, now))])
       ELSE /\ resp' = Response("mock", "fetch", [jobId |-> Str(jobId)], 0,
                   ErrorBody("Error in mock n8n callback"), <<>>, "fetch failed")
            /\ UNCHANGED reqs
    /\ UNCHANGED <<boot, env, jobs, now, acked, app>>

----------------------------------------------------------------------------
(* GET /jobs/:id and GET /jobs *)

\* mutant of FullView: the view of the job as it was created
FullViewAsCreated(d) ==
    [id |-> d.id, prompt |-> d.prompt, status |-> JobStatus.PENDING, result |-> Null,
     createdAt |-> d.createdAt, updatedAt |-> d.createdAt]

FullView(d) ==
    [id |-> d.id, prompt |-> d.prompt, status |-> d.status, result |-> d.result,
     createdAt |-> d.createdAt, updatedAt |-> d.updatedAt]

\* router.get('/:id'), up to the await of Job.findById; after records whether
\* the client had a callback for this job answered 200 before it sent this request
GetJob(id) ==
    /\ Suspend([op |-> "get", pc |-> "Job.findById",
                req |-> [id |-> id, after |-> acked # Null /\ acked.id \in Matching(id)]])
    /\ resp' = NoResponse
    /\ UNCHANGED <<boot, env, jobs, now, timers, fired, acked, app>>

\* Job.findById(id)
FindById(r, fails) ==
    /\ r.op = "get"
    /\ r.pc = "Job.findById"
    /\ LET found == Matching(r.req.id)
           done(ret) == Resume(r, [r EXCEPT !.pc = "found"] @@ [ret |-> ret])
       IN  IF ~IsObjectIdString(r.req.id)
           THEN done(Throws("CastError"))
           ELSE IF fails
           THEN done(Throws("MongoError"))
           ELSE IF found = {}
           THEN done(NoDoc)
           ELSE \E k \in found : done(Doc(jobs[k]))
    /\ resp' = NoResponse
    /\ UNCHANGED <<boot, env, jobs, now, timers, fired, acked, app>>

\* router.get('/:id') after the await: 404, 200 or 500
GetJobResume(r) ==
    /\ r.op = "get"
    /\ r.pc = "found"
    /\ LET trace == <<"handler", "Job.findById">>
       IN  resp' =
             IF r.ret.kind = "throw"
             THEN Response("client", "get", r.req, 500,
                      ErrorBody("Failed to fetch job"), trace, r.ret.error)
             ELSE IF r.ret.kind = "null"
             THEN Response("client", "get", r.req, 404, ErrorBody("Job not found"),
                      trace, "none")
             ELSE Response("client", "get", r.req, 200, FullView(r.ret.doc), trace, "none")
    /\ Return(r)
    /\ UNCHANGED <<boot, env, jobs, now, timers, fired, acked, app>>

\* router.get('/'), up to the await of Job.find().sort(); after records the
\* job the client had a callback answered 200 for before it sent this
\* request, 0 when it had none
GetJobs ==
    /\ Suspend([op |-> "list", pc |-> "Job.find",
                req |-> [after |-> IF acked = Null THEN 0 ELSE acked.id]])
    /\ resp' = NoResponse
    /\ UNCHANGED <<boot, env, jobs, now, timers, fired, acked, app>>

\* the orders sort({createdAt: -1}) may return the documents in: descending
\* createdAt, documents with equal createdAt in any order
SortedByCreatedAtDesc ==
    {p \in [DOMAIN jobs -> DOMAIN jobs] :
        /\ \A i, j \in DOMAIN jobs : i # j => p[i] # p[j]
        /\ \A i, j \in DOMAIN jobs :
              i < j => jobs[p[i]].createdAt >= jobs[p[j]].createdAt}

\* Job.find().sort({createdAt: -1})
Find(r, fails) ==
    /\ r.op = "list"
    /\ r.pc = "Job.find"
    /\ LET done(ret) == Resume(r, [r EXCEPT !.pc = "found"] @@ [ret |-> ret])
       IN  IF fails
           THEN done(Throws("MongoError"))
           ELSE \E p \in SortedByCreatedAtDesc :
                    done(Doc([i \in DOMAIN jobs |-> jobs[p[i]]]))
    /\ resp' = NoResponse
    /\ UNCHANGED <<boot, env, jobs, now, timers, fired, acked, app>>

\* router.get('/') after the await: 200 or 500
GetJobsResume(r) ==
    /\ r.op = "list"
    /\ r.pc = "found"
    /\ LET trace == <<"handler", "Job.find">>
       IN  resp' =
             IF r.ret.kind = "throw"
             THEN Response("client", "list", r.req, 500,
                      ErrorBody("Failed to fetch jobs"), trace, r.ret.error)
             ELSE Response("client", "list", r.req, 200,
                      [i \in DOMAIN r.ret.doc |-> FullView(r.ret.doc[i])], trace, "none")
    /\ Return(r)
    /\ UNCHANGED <<boot, env, jobs, now, timers, fired, acked, app>>

----------------------------------------------------------------------------
(* The client of the end-to-end scenario *)

\* the client that completes a job by hand keeps the 200 it got, to compare
\* later reads with
ClientKeeps ==
    /\ resp.origin = "client"
    /\ resp.op = "callback"
    /\ resp.code = 200
    /\ acked # resp.body
    /\ acked' = resp.body
    /\ UNCHANGED <<boot, env, jobs, now, timers, fired, reqs, resp, app>>

----------------------------------------------------------------------------
(* Time *)

\* the clock moves on to a later reading
Tick(t) ==
    /\ t > now
    /\ now' = t
    /\ resp' = NoResponse
    /\ UNCHANGED <<boot, env, jobs, timers, fired, reqs, acked, app>>

----------------------------------------------------------------------------
(* Frontend: the App component *)

\* what the user types into the textarea
AppPrompts == {<<>>, <<Run(" ", 1)>>, <<Run("a", 1)>>}

\* what a fetch to API_BASE settles with: a response with one of the codes
\* the route sends, or 0 when it rejects because nothing answers at
\* localhost:3000, as when the server was started on another port
Fetched(codes) == IF PORT = apiBasePort THEN codes \cup {0} ELSE {0}

\* what the fetches settle with when the frontend is taken alone: the list of
\* GET /jobs empty or with one job, and the job of a 201
AppLists == {<<>>, <<FullView(NewJob(1, <<Run("a", 1)>>, JobStatus.PENDING, 0))>>}

AppCreated ==
    {[id |-> 2, prompt |-> <<Run("a", 1)>>, status |-> JobStatus.PENDING, createdAt |-> 0]}

\* disabled={isLoading || networkError}
Disabled == app.isLoading \/ app.networkError

\* fetchJobs, called on mount and by the interval every 2 seconds, up to its
\* await of fetch
fetchJobs ==
    /\ app.polls < MaxInFlight
    /\ app' = [app EXCEPT !.networkError = FALSE, !.error = Null, !.polls = @ + 1]
    /\ resp' = NoResponse
    /\ UNCHANGED <<boot, env, jobs, now, timers, fired, reqs, acked>>

\* fetchJobs after the await: setJobs(data), or the catch
fetchJobsResume(code, data) ==
    /\ app.polls > 0
    /\ app' = IF code = 200
              THEN [app EXCEPT !.polls = @ - 1, !.jobs = data]
              ELSE [app EXCEPT !.polls = @ - 1, !.networkError = TRUE,
                               !.error = Text("Failed to fetch jobs. Is the backend running?")]
    /\ resp' = NoResponse
    /\ UNCHANGED <<boot, env, jobs, now, timers, fired, reqs, acked>>

\* onChange of the textarea, which takes no input while it is disabled
setPrompt(value) ==
    /\ ~Disabled
    /\ value # app.prompt
    /\ app' = [app EXCEPT !.prompt = value]
    /\ resp' = NoResponse
    /\ UNCHANGED <<boot, env, jobs, now, timers, fired, reqs, acked>>

\* handleSubmit, on a click of the submit button when it is not disabled, up
\* to its await of fetch: the handler is the one of the last render and jobs
\* in it is the list of that render
handleSubmit ==
    /\ ~Disabled
    /\ app' = IF Trim(app.prompt) = <<>>
              THEN [app EXCEPT !.error = Text("Please enter a prompt")]
              ELSE [app EXCEPT !.isLoading = TRUE, !.error = Null, !.submits = @ + 1,
                               !.captured = app.jobs]
    /\ app' # app
    /\ resp' = NoResponse
    /\ UNCHANGED <<boot, env, jobs, now, timers, fired, reqs, acked>>

\* handleSubmit after the await: setJobs([newJob, ...jobs]) and the prompt
\* cleared, or the catch; then finally
handleSubmitResume(code, newJob) ==
    /\ app.submits > 0
    /\ app' = IF code = 201
              THEN [app EXCEPT !.submits = @ - 1, !.prompt = <<>>, !.error = Null,
                               !.isLoading = FALSE, !.captured = <<>>,
                               !.jobs = <<newJob>> \o app.captured]
              ELSE [app EXCEPT !.submits = @ - 1, !.networkError = TRUE,
                               !.error = Text("Failed to create job. Is the backend running?"),
                               !.isLoading = FALSE, !.captured = <<>>]
    /\ resp' = NoResponse
    /\ UNCHANGED <<boot, env, jobs, now, timers, fired, reqs, acked>>

----------------------------------------------------------------------------
(* Startup: startServer *)

\* startServer at its first await, the 30 seconds before the first attempt
Booting ==
    [pc |-> "waiting", retries |-> 0, delay |-> 0, listening |-> FALSE,
     exitCode |-> Null]

\* Math.min(1000 * Math.pow(2, retries - 1), 30000), computed without leaving
\* the integers of the model checker: from 2^5 on the product is above 30000
Delay(retries) ==
    IF retries - 1 >= 5
    THEN maxDelay
    ELSE IF firstDelay * 2 ^ (retries - 1) < maxDelay
         THEN firstDelay * 2 ^ (retries - 1)
         ELSE maxDelay

\* mutant of Retrying: a delay after every failure
RetryingAlways(retries) == TRUE

\* if (retries < maxRetries) in the catch
Retrying(retries) == retries < maxRetries

\* while (retries < maxRetries): the next attempt, or the end of the loop and
\* process.exit(1)
Loop(b) ==
    IF b.retries < maxRetries
    THEN [b EXCEPT !.pc = "connecting"]
    ELSE [b EXCEPT !.pc = "exited", !.exitCode = Num(1)]

\* the first timeout has passed: the loop is entered
Waited ==
    /\ boot.pc = "waiting"
    /\ boot' = Loop(boot)
    /\ UNCHANGED <<env, jobs, now, timers, fired, reqs, resp, acked, app>>

\* await mongoose.connect(MONGODB_URI) settles: app.listen and return, or the
\* catch, which counts the failure and waits unless it was the last attempt
Connect(connected) ==
    /\ boot.pc = "connecting"
    /\ boot' = IF connected
               THEN [boot EXCEPT !.pc = "listening", !.listening = TRUE]
               ELSE LET retries == boot.retries + 1
                    IN  IF Retrying(retries)
                        THEN [boot EXCEPT !.retries = retries, !.pc = "delay",
                                          !.delay = Delay(retries)]
                        ELSE Loop([boot EXCEPT !.retries = retries])
    /\ UNCHANGED <<env, jobs, now, timers, fired, reqs, resp, acked, app>>

\* the delay has passed: the loop condition is tested again
Delayed ==
    /\ boot.pc = "delay"
    /\ boot' = Loop(boot)
    /\ UNCHANGED <<env, jobs, now, timers, fired, reqs, resp, acked, app>>

----------------------------------------------------------------------------
(* Specifications *)

\* the requests clients send: the sets their inputs are drawn from
Requests(prompts, callbacks, ids) ==
    \/ \E prompt \in prompts : PostJobs(prompt)
    \/ \E req \in callbacks : PostCallback(req)
    \/ \E id \in ids : GetJob(id)
    \/ GetJobs

\* the storage calls of the suspended handlers, failing or not
Storage(failures) ==
    \/ \E r \in InFlight, fails \in failures : JobCreate(r, fails)
    \/ \E r \in InFlight, fails \in failures : FindByIdAndUpdate(r, fails)
    \/ \E r \in InFlight, fails \in failures : FindById(r, fails)
    \/ \E r \in InFlight, fails \in failures : Find(r, fails)

\* the continuations of the handlers
Handlers ==
    \/ \E r \in InFlight : PostJobsResume(r)
    \/ \E r \in InFlight : PostCallbackResume(r)
    \/ \E r \in InFlight : GetJobResume(r)
    \/ \E r \in InFlight : GetJobsResume(r)

Worker == \E jobId \in timers : MockCallback(jobId)

\* Spec: the routes and the mock worker interleaved, MaxInFlight requests at a
\* time, under the default configuration, within one reading of the clock
\* and with a store that answers
Next ==
    \/ Requests(SamplePrompts, SampleCallbacks, {ObjectIdString(1), malformedId})
    \/ Storage({FALSE})
    \/ Handlers
    \/ Worker

Spec == InitDefault /\ [][Next]_vars

\* SpecSeq: the end-to-end scenario. One request at a time, the clock running,
\* the store failing or not, and a client that completes jobs by hand until it
\* keeps the 200 one of its callbacks was answered, and sends none after that
SeqCallbacks ==
    {c \in Callbacks :
        /\ c.secret \in {Str(devSecretKey), Str(upperSecret)}
        /\ c.jobId \in {Str(ObjectIdString(1)), Str(malformedId)}
        /\ c.result \in {Str(okResult), Str(paddedResult)}}

NextSeq ==
    \/ /\ reqs = EmptyBag
       /\ Requests(SamplePrompts, IF acked = Null THEN SeqCallbacks ELSE {},
                   {ObjectIdString(1), malformedId})
    \/ Storage(BOOLEAN)
    \/ Handlers
    \/ reqs = EmptyBag /\ Worker
    \/ ClientKeeps
    \/ \E t \in Times : Tick(t)

SpecSeq == InitDefault /\ [][NextSeq]_vars

\* SpecCreate: POST /jobs alone, one request at a time, over all the prompts
NextCreate ==
    \/ reqs = EmptyBag /\ \E prompt \in Prompts : PostJobs(prompt)
    \/ \E r \in InFlight, fails \in BOOLEAN : JobCreate(r, fails)
    \/ \E r \in InFlight : PostJobsResume(r)
    \/ \E t \in Times : Tick(t)

SpecCreate == InitDefault /\ [][NextCreate]_vars

\* SpecComplete: POST /jobs/webhook/callback over all the headers and bodies,
\* one request at a time, on the jobs a client has created, the store failing
\* or not
NextComplete ==
    \/ reqs = EmptyBag /\ \E prompt \in SamplePrompts : PostJobs(prompt)
    \/ reqs = EmptyBag /\ \E req \in Callbacks : PostCallback(req)
    \/ \E r \in InFlight, fails \in BOOLEAN : JobCreate(r, fails)
    \/ \E r \in InFlight, fails \in BOOLEAN : FindByIdAndUpdate(r, fails)
    \/ \E r \in InFlight : PostJobsResume(r)
    \/ \E r \in InFlight : PostCallbackResume(r)

SpecComplete == InitDefault /\ [][NextComplete]_vars

\* SpecWorker: the mock worker under every configuration, the store failing
\* or not, next to a client that sends one request at a time: it creates
\* jobs, reads them, and completes the first by hand with the right secret
NextWorker ==
    \/ /\ reqs = EmptyBag
       /\ Requests(SamplePrompts,
                   {[secret |-> SHARED_SECRET, jobId |-> Str(ObjectIdString(1)),
                     result |-> Str(okResult)]},
                   {ObjectIdString(1)})
    \/ Storage(BOOLEAN)
    \/ Handlers
    \/ Worker

SpecWorker == Init /\ [][NextWorker]_vars

\* SpecLin: a client that creates jobs, completes the first by hand, keeps the
\* 200 it gets and reads, with MaxInFlight requests at a time and the mock
\* worker running
LinCallbacks ==
    {[secret |-> Str(devSecretKey), jobId |-> Str(ObjectIdString(1)), result |-> Str(s)] :
        s \in {okResult, paddedResult}}

NextLin ==
    \/ Requests({Str(<<Run(" ", 1), Run("a", 1), Run(" ", 1)>>)}, LinCallbacks,
                {ObjectIdString(1)})
    \/ Storage({FALSE})
    \/ Handlers
    \/ Worker
    \/ ClientKeeps

SpecLin == InitDefault /\ [][NextLin]_vars

\* SpecClock: callbacks for the first job once it is stored, MaxInFlight at a
\* time, while the clock runs
NextClock ==
    \/ /\ reqs = EmptyBag
       /\ PostJobs(Str(<<Run(" ", 1), Run("a", 1), Run(" ", 1)>>))
    \/ \E req \in LinCallbacks : Matching(req.jobId.s) # {} /\ PostCallback(req)
    \/ \E r \in InFlight : JobCreate(r, FALSE)
    \/ \E r \in InFlight : FindByIdAndUpdate(r, FALSE)
    \/ \E r \in InFlight : PostJobsResume(r)
    \/ \E r \in InFlight : PostCallbackResume(r)
    \/ \E t \in Times : Tick(t)

SpecClock == InitDefault /\ [][NextClock]_vars

\* SpecLive: jobs are created, one POST /jobs at a time, and nobody but the
\* mock worker completes them, under every configuration. The process keeps
\* running: a storage call that was issued returns (and succeeds), a handler
\* whose await has settled runs its continuation, a timer that was set fires.
CreateLive == \E r \in InFlight : JobCreate(r, FALSE)
CreatedLive == \E r \in InFlight : PostJobsResume(r)
UpdateLive == \E r \in InFlight : FindByIdAndUpdate(r, FALSE)
UpdatedLive == \E r \in InFlight : PostCallbackResume(r)

NextLive ==
    \/ /\ reqs = EmptyBag
       /\ Len(jobs) < MaxJobs
       /\ \E prompt \in SamplePrompts : PostJobs(prompt)
    \/ CreateLive
    \/ CreatedLive
    \/ UpdateLive
    \/ UpdatedLive
    \/ Worker

SpecLive ==
    /\ Init
    /\ [][NextLive]_vars
    /\ WF_vars(CreateLive)
    /\ WF_vars(CreatedLive)
    /\ WF_vars(UpdateLive)
    /\ WF_vars(UpdatedLive)
    /\ WF_vars(Worker)

\* SpecFire: SpecLive with a client that completes the first job by hand,
\* with the right secret, one request at a time. The process keeps running,
\* as in SpecLive; nothing makes the client send its callback
ManualCallback ==
    /\ reqs = EmptyBag
    /\ Matching(ObjectIdString(1)) # {}
    /\ PostCallback([secret |-> SHARED_SECRET, jobId |-> Str(ObjectIdString(1)),
                     result |-> Str(okResult)])

NextFire ==
    \/ NextLive
    \/ ManualCallback

SpecFire ==
    /\ Init
    /\ [][NextFire]_vars
    /\ WF_vars(CreateLive)
    /\ WF_vars(CreatedLive)
    /\ WF_vars(UpdateLive)
    /\ WF_vars(UpdatedLive)
    /\ WF_vars(Worker)

\* SpecPaths: every control path of the four routes. A client sends one
\* request at a time, with inputs for each answer a route can give, the store
\* fails or not, and the mock worker's callbacks run next to the client's
\* requests
NextPaths ==
    \/ /\ reqs = EmptyBag
       /\ Requests(SamplePrompts, SampleCallbacks, {ObjectIdString(1), malformedId})
    \/ Storage(BOOLEAN)
    \/ Handlers
    \/ Worker

SpecPaths == InitDefault /\ [][NextPaths]_vars

\* SpecStart: the start of the process under every configuration, the store
\* reachable or not at each attempt. Timers fire and mongoose.connect settles
InitStart ==
    /\ env \in [WEBHOOK_SECRET : EnvSecrets, PORT : EnvPorts]
    /\ jobs = <<>>
    /\ now = 0
    /\ timers = {}
    /\ fired = {}
    /\ reqs = EmptyBag
    /\ resp = NoResponse
    /\ acked = Null
    /\ app = Mounting
    /\ boot = Booting

Connecting == \E connected \in BOOLEAN : Connect(connected)

NextStart ==
    \/ Waited
    \/ Connecting
    \/ Delayed

SpecStart ==
    /\ InitStart
    /\ [][NextStart]_vars
    /\ WF_vars(Waited)
    /\ WF_vars(Connecting)
    /\ WF_vars(Delayed)

\* SpecDisplay: the frontend in front of the server, under the default
\* configuration and with a store that answers. The user types and submits,
\* the component polls, one poll at a time; each fetch reaches the server
\* some time after it was issued, the handlers and the mock worker run as in
\* Spec, and a response is taken by the fetch that awaits it before anything
\* else happens
Awaiting(op) == BagCardinality([r \in {x \in InFlight : x.op = op} |-> reqs[r]])

Undelivered == resp.origin = "client" /\ resp.op \in {"list", "create"}

NextDisplay ==
    \/ Undelivered /\ resp.op = "list" /\ fetchJobsResume(resp.code, resp.body)
    \/ Undelivered /\ resp.op = "create" /\ handleSubmitResume(resp.code, resp.body)
    \/ ~Undelivered /\ app.polls = 0 /\ fetchJobs
    \/ ~Undelivered /\ app.polls > Awaiting("list") /\ GetJobs
    \/ ~Undelivered /\ \E value \in AppPrompts : setPrompt(value)
    \/ ~Undelivered /\ handleSubmit
    \/ ~Undelivered /\ app.submits > Awaiting("create") /\ PostJobs(Str(Trim(app.prompt)))
    \/ ~Undelivered /\ \E r \in InFlight : JobCreate(r, FALSE)
    \/ ~Undelivered /\ \E r \in InFlight : FindByIdAndUpdate(r, FALSE)
    \/ ~Undelivered /\ \E r \in InFlight : Find(r, FALSE)
    \/ ~Undelivered /\ \E r \in InFlight : PostJobsResume(r)
    \/ ~Undelivered /\ \E r \in InFlight : PostCallbackResume(r)
    \/ ~Undelivered /\ \E r \in InFlight : GetJobsResume(r)
    \/ ~Undelivered /\ Worker

SpecDisplay == InitDefault /\ [][NextDisplay]_vars

\* SpecAuth: the authenticator under every configuration of the secret. One
\* request at a time: jobs are created, the mock worker completes them, and
\* callbacks arrive with every token and every body
NextAuth ==
    \/ reqs = EmptyBag /\ \E prompt \in SamplePrompts : PostJobs(prompt)
    \/ reqs = EmptyBag /\ \E req \in AuthCallbacks : PostCallback(req)
    \/ \E r \in InFlight : JobCreate(r, FALSE)
    \/ \E r \in InFlight : FindByIdAndUpdate(r, FALSE)
    \/ \E r \in InFlight : PostJobsResume(r)
    \/ \E r \in InFlight : PostCallbackResume(r)
    \/ reqs = EmptyBag /\ Worker

SpecAuth == Init /\ [][NextAuth]_vars

\* SpecDecide: the store changing under the authenticator, under every
\* configuration. One request at a time: jobs are created and completed, by
\* the mock worker and by a client that presents the secret, the default
\* secret whatever is configured, or no token
DecideCallbacks ==
    {[secret |-> SHARED_SECRET, jobId |-> Str(ObjectIdString(1)),
      result |-> Str(okResult)],
     [secret |-> Str(devSecretKey), jobId |-> Str(ObjectIdString(1)),
      result |-> Str(okResult)],
     [secret |-> Undefined, jobId |-> Undefined, result |-> Undefined]}

NextDecide ==
    \/ reqs = EmptyBag /\ \E prompt \in SamplePrompts : PostJobs(prompt)
    \/ reqs = EmptyBag /\ \E req \in DecideCallbacks : PostCallback(req)
    \/ \E r \in InFlight : JobCreate(r, FALSE)
    \/ \E r \in InFlight : FindByIdAndUpdate(r, FALSE)
    \/ \E r \in InFlight : PostJobsResume(r)
    \/ \E r \in InFlight : PostCallbackResume(r)
    \/ reqs = EmptyBag /\ Worker

SpecDecide == Init /\ [][NextDecide]_vars

\* SpecApp: the frontend under every configuration of the server: the
\* component mounts and polls, the user types and submits, and each fetch
\* settles with a response or rejects; a 201 comes only while fewer than
\* MaxJobs jobs are on display
NextApp ==
    \/ fetchJobs
    \/ \E code \in Fetched({200, 500}), data \in AppLists : fetchJobsResume(code, data)
    \/ \E value \in AppPrompts : setPrompt(value)
    \/ handleSubmit
    \/ \E code \in Fetched({201, 500}), newJob \in AppCreated :
          /\ code = 201 => Len(app.captured) < MaxJobs
          /\ handleSubmitResume(code, newJob)

SpecApp == Init /\ [][NextApp]_vars

----------------------------------------------------------------------------
(* Properties *)

\* the secret a callback request presents is missing or is not the configured one
Unauthorized(req) ==
    req.secret = Undefined \/ req.secret # SHARED_SECRET

\* C1: a callback request whose x-webhook-secret header is missing or differs
\* from the configured secret is answered in the step that receives it, is
\* never left suspended at a storage call, and that step leaves the job store
\* as it was, whatever jobId and result its body carries.
C1_UnauthorizedCallbackLeavesStore ==
    [][/\ \A r \in BagToSet(reqs') : r.op = "callback" => ~Unauthorized(r.req)
       /\ (resp'.op = "callback" /\ Unauthorized(resp'.req)) =>
             (jobs' = jobs /\ reqs' = reqs)]_vars

\* a wrong secret for a stored, pending job was answered 401 and the job is
\* still pending
C1_Witness ==
    /\ resp.op = "callback"
    /\ resp.code = 401
    /\ resp.req.secret = Str(upperSecret)
    /\ resp.req.jobId = Str(ObjectIdString(1))
    /\ Len(jobs) >= 1
    /\ jobs[1].status = JobStatus.PENDING

\* C2: a callback request with a missing or mismatched secret is answered 401
\* by the middleware alone: the handler (validation, lookup, update) does not
\* run for it, no such request is ever suspended in the handler.
C2_UnauthorizedIs401 ==
    /\ (resp.op = "callback" /\ Unauthorized(resp.req)) =>
          /\ resp.code = 401
          /\ resp.trace = <<"validateWebhookSecret">>
    /\ \A r \in InFlight : r.op = "callback" => ~Unauthorized(r.req)

\* 401 for a request without a secret whose body is invalid too (jobId missing)
C2_Witness ==
    /\ resp.op = "callback"
    /\ resp.code = 401
    /\ resp.req.secret = Undefined
    /\ resp.req.jobId = Undefined

ViewConsistent(v) ==
    /\ v.status = JobStatus.COMPLETED => v.result # Null
    /\ v.status = JobStatus.PENDING => v.result = Null

\* C3: no view returned by GET /jobs/:id or GET /jobs has status COMPLETED with
\* result null, or status PENDING with a result, however the reads interleave
\* with the completions.
C3_NoTornView ==
    /\ (resp.op = "get" /\ resp.code = 200) => ViewConsistent(resp.body)
    /\ (resp.op = "list" /\ resp.code = 200) =>
          \A i \in DOMAIN resp.body : ViewConsistent(resp.body[i])

\* a GET answers PENDING for a job that a concurrent callback, still waiting
\* to send its response, has completed in the meantime
C3_Witness ==
    /\ resp.op = "get"
    /\ resp.code = 200
    /\ resp.body.status = JobStatus.PENDING
    /\ jobs[resp.body.id].status = JobStatus.COMPLETED
    /\ \E r \in InFlight :
          /\ r.op = "callback"
          /\ r.pc = "updated"
          /\ r.ret.kind = "doc"
          /\ r.ret.doc.id = resp.body.id

\* what is left of a string between its first and its last non-whitespace character
Stripped(s) ==
    LET keep == {i \in DOMAIN s : s[i].c \notin Whitespace}
    IN  IF keep = {}
        THEN <<>>
        ELSE SubSeq(s, CHOOSE i \in keep : \A j \in keep : i <= j,
                       CHOOSE i \in keep : \A j \in keep : i >= j)

\* a prompt the specification accepts: a string of 1 to 5000 characters once
\* the surrounding whitespace is removed
ValidPrompt(prompt) ==
    /\ prompt.t = "string"
    /\ Length(Stripped(prompt.s)) >= 1
    /\ Length(Stripped(prompt.s)) <= 5000

\* the requests resumed after a successful insert, not answered yet
Inserted == {r \in InFlight : r.op = "create" /\ r.pc = "created" /\ r.ret.kind = "doc"}

\* C4: unless the storage itself fails, POST /jobs with a prompt that is a
\* string of 1 to 5000 characters after trimming answers 201 with the new job:
\* status PENDING, no result, the trimmed prompt. The job is the newest of the
\* store, holds the trimmed prompt, status PENDING and a null result; each
\* request inserts one job at most, and every inserted job is answered by its
\* own 201.
C4_ValidPromptCreatesPendingJob ==
    [][/\ (resp'.op = "create" /\ ValidPrompt(resp'.req.prompt)
              /\ resp'.log # "MongoError") =>
             /\ resp'.code = 201
             /\ resp'.body.status = JobStatus.PENDING
             /\ "result" \notin DOMAIN resp'.body
             /\ resp'.body.prompt = Stripped(resp'.req.prompt.s)
             /\ resp'.body.id = Len(jobs')
             /\ jobs'[resp'.body.id].prompt = Stripped(resp'.req.prompt.s)
             /\ jobs'[resp'.body.id].status = JobStatus.PENDING
             /\ jobs'[resp'.body.id].result = Null
             /\ jobs' = jobs
       /\ Len(jobs') <= Len(jobs) + 1
       /\ Len(jobs') = Len(jobs) + 1 =>
             \E r \in BagToSet(reqs') :
                /\ r \in Inserted'
                /\ r.ret.doc = jobs'[Len(jobs')]
                /\ ValidPrompt(r.req.prompt)
       /\ Len(jobs') = Cardinality(timers') + Cardinality(Inserted')]_vars

\* a prompt of 5000 characters between surrounding spaces was answered 201
C4_Witness ==
    /\ resp.op = "create"
    /\ resp.code = 201
    /\ resp.req.prompt = Str(<<Run(" ", 1), Run("a", 5000), Run(" ", 1)>>)
    /\ resp.body.prompt = <<Run("a", 5000)>>
    /\ jobs[resp.body.id].prompt = <<Run("a", 5000)>>

\* C5: POST /jobs with a prompt that is missing, not a string, empty,
\* whitespace-only or longer than 5000 characters after trimming answers 400;
\* no job holds such a prompt and no completion is scheduled without a job.
C5_InvalidPromptIs400 ==
    /\ (resp.op = "create" /\ ~ValidPrompt(resp.req.prompt)) => resp.code = 400
    /\ \A k \in DOMAIN jobs : ValidPrompt(Str(jobs[k].prompt))
    /\ Cardinality(timers) <= Len(jobs)

\* the suspended request r takes its step
Steps(r) == CopiesIn(r, reqs') < CopiesIn(r, reqs)

\* C6: with a store that answers, an authorized callback with a non-empty
\* result string r for a job that exists when the update runs leaves the job
\* COMPLETED with result r, character for character, and is answered 200 with
\* status COMPLETED and result r.
C6_CompleteStoresResultVerbatim ==
    [][\A r \in BagToSet(reqs) :
          /\ (/\ r.op = "callback"
              /\ r.pc = "Job.findByIdAndUpdate"
              /\ Steps(r)
              /\ Matching(r.req.jobId.s) # {}) =>
                \E k \in Matching(r.req.jobId.s) :
                   /\ jobs'[k].status = JobStatus.COMPLETED
                   /\ jobs'[k].result = r.req.result
                   /\ \E r2 \in BagToSet(reqs') :
                         /\ r2.op = "callback"
                         /\ r2.pc = "updated"
                         /\ CopiesIn(r2, reqs') > CopiesIn(r2, reqs)
                         /\ r2.req = r.req
                         /\ r2.ret = Doc(jobs'[k])
          /\ (/\ r.op = "callback"
              /\ r.pc = "updated"
              /\ Steps(r)
              /\ r.ret.kind = "doc") =>
                /\ resp'.op = "callback"
                /\ resp'.req = r.req
                /\ resp'.code = 200
                /\ resp'.body.status = JobStatus.COMPLETED
                /\ resp'.body.result = r.req.result]_vars

\* a result with surrounding spaces was answered 200 and is stored with them
C6_Witness ==
    /\ resp.op = "callback"
    /\ resp.code = 200
    /\ resp.req.result = Str(paddedResult)
    /\ resp.body.result = Str(paddedResult)
    /\ Trim(paddedResult) # paddedResult
    /\ jobs[resp.body.id].result = Str(paddedResult)
    /\ jobs[resp.body.id].status = JobStatus.COMPLETED

\* C7: a job is stored with status PENDING, no job is ever removed, and a job
\* whose status is COMPLETED or FAILED keeps that status in every step.
C7_StatusChangesAtMostOnce ==
    [][/\ \A k \in DOMAIN jobs :
             /\ k \in DOMAIN jobs'
             /\ jobs[k].status # JobStatus.PENDING => jobs'[k].status = jobs[k].status
       /\ \A k \in DOMAIN jobs' \ DOMAIN jobs : jobs'[k].status = JobStatus.PENDING]_vars

\* a completed job has been updated by a second callback: the document an
\* earlier callback is about to return is no longer the stored one
C7_Witness ==
    \E r \in InFlight :
       /\ r.op = "callback"
       /\ r.pc = "updated"
       /\ r.ret.kind = "doc"
       /\ jobs[r.ret.doc.id].status = JobStatus.COMPLETED
       /\ jobs[r.ret.doc.id].result # r.ret.doc.result

\* C8: a job's result is null while the job is PENDING, and once it is written
\* no step, the mock worker's callback and a replayed callback included,
\* writes another result.
C8_ResultWrittenOnce ==
    [][\A k \in DOMAIN jobs :
          /\ jobs'[k].status = JobStatus.PENDING => jobs'[k].result = Null
          /\ jobs[k].result # Null => jobs'[k].result = jobs[k].result]_vars

\* C9: once the client has the 200 of its callback for a job, every GET
\* /jobs/:id it sends afterwards for that job shows what the 200 showed:
\* status COMPLETED, the same result, the same updatedAt.
C9_ReadsAfterCompletionAgree ==
    (/\ resp.op = "get"
     /\ resp.code = 200
     /\ resp.req.after
     /\ acked # Null
     /\ acked.id = resp.body.id) =>
        /\ resp.body.status = JobStatus.COMPLETED
        /\ resp.body.result = acked.result
        /\ resp.body.updatedAt = acked.updatedAt

\* C10: an authorized callback with a non-empty jobId and result whose jobId
\* is the id of no stored job is answered 404, whatever the jobId looks like,
\* and its storage step leaves the store as it was.
C10_UnknownJobIs404 ==
    [][/\ (/\ resp'.op = "callback"
           /\ ~Unauthorized(resp'.req)
           /\ ~Falsy(resp'.req.jobId)
           /\ ~Falsy(resp'.req.result)
           /\ \A k \in DOMAIN jobs' : ObjectIdString(k) # resp'.req.jobId.s) =>
             resp'.code = 404
       /\ \A r \in BagToSet(reqs) :
             (/\ r.op = "callback"
              /\ r.pc = "Job.findByIdAndUpdate"
              /\ Steps(r)
              /\ Matching(r.req.jobId.s) = {}) => jobs' = jobs]_vars

NonEmptyString(v) == v.t = "string" /\ v.s # <<>>

\* C11: an authorized callback whose jobId or result is missing or empty is
\* answered 400 by the handler's validation, before any storage call, also
\* when the jobId names no job; a result that is not a non-empty string is
\* never answered 200, and every stored result is a non-empty string that a
\* request carried.
C11_InvalidCompleteIsRejected ==
    /\ (/\ resp.op = "callback"
        /\ ~Unauthorized(resp.req)
        /\ (Falsy(resp.req.jobId) \/ Falsy(resp.req.result))) =>
          /\ resp.code = 400
          /\ resp.trace = <<"validateWebhookSecret", "handler">>
    /\ (/\ resp.op = "callback"
        /\ ~Unauthorized(resp.req)
        /\ ~NonEmptyString(resp.req.result)) => resp.code # 200
    /\ \A k \in DOMAIN jobs :
          \/ jobs[k].result = Null
          \/ jobs[k].result \in {v \in Results : NonEmptyString(v)}

\* C12: GET /jobs/:id with an id that is the id of no stored job is answered
\* 404, whatever the id looks like; a 200 carries the six fields of the stored
\* job that has this id, with the prompt and createdAt it was stored with.
C12_GetAnswers404Or200 ==
    /\ (resp.op = "get" /\ Matching(resp.req.id) = {}) => resp.code = 404
    /\ (resp.op = "get" /\ resp.code = 200) =>
          /\ Matching(resp.req.id) = {resp.body.id}
          /\ DOMAIN resp.body =
                {"id", "prompt", "status", "result", "createdAt", "updatedAt"}
          /\ resp.body.prompt = jobs[resp.body.id].prompt
          /\ resp.body.createdAt = jobs[resp.body.id].createdAt

\* C13: with one request at a time, a 200 of GET /jobs lists every stored job
\* once, the newest creation first: after the creations A, B, C the list is
\* [C, B, A], also when consecutive creations were given the same createdAt;
\* with no job stored the list is empty.
C13_ListNewestFirst ==
    (resp.op = "list" /\ resp.code = 200) =>
        /\ Len(resp.body) = Len(jobs)
        /\ \A i \in DOMAIN resp.body :
              /\ resp.body[i].id = Len(jobs) + 1 - i
              /\ \A j \in DOMAIN resp.body :
                    i < j => resp.body[i].createdAt >= resp.body[j].createdAt

\* C14: a GET /jobs/:id whose read finds a job that no callback has updated
\* yet (the job is stored and still PENDING when Job.findById runs) reads
\* status PENDING and result null, and answers 200 with that view.
C14_FreshJobReadsPending ==
    [][\A r \in BagToSet(reqs) :
          /\ (/\ r.op = "get"
              /\ r.pc = "Job.findById"
              /\ Steps(r)
              /\ \E k \in Matching(r.req.id) : jobs[k].status = JobStatus.PENDING) =>
                \E r2 \in BagToSet(reqs') :
                   /\ r2.op = "get"
                   /\ r2.pc = "found"
                   /\ CopiesIn(r2, reqs') > CopiesIn(r2, reqs)
                   /\ r2.ret.kind = "doc"
                   /\ r2.ret.doc.id \in Matching(r.req.id)
                   /\ r2.ret.doc.status = JobStatus.PENDING
                   /\ r2.ret.doc.result = Null
          /\ (/\ r.op = "get"
              /\ r.pc = "found"
              /\ Steps(r)
              /\ r.ret.kind = "doc") =>
                /\ resp'.op = "get"
                /\ resp'.code = 200
                /\ resp'.body.id = r.ret.doc.id
                /\ resp'.body.status = r.ret.doc.status
                /\ resp'.body.result = r.ret.doc.result]_vars

\* the job was created, its mock callback has not fired, and a GET for it was
\* answered PENDING with a null result
C14_Witness ==
    /\ resp.op = "get"
    /\ resp.code = 200
    /\ resp.body.status = JobStatus.PENDING
    /\ resp.body.result = Null
    /\ ObjectIdString(resp.body.id) \in timers
    /\ jobs[resp.body.id].status = JobStatus.PENDING

\* C15 as stated: at every moment the scheduled and the fired mock callbacks
\* are as many as the stored jobs, and each targets a stored job.
C15_CallbacksEqualJobs ==
    /\ timers \cap fired = {}
    /\ Cardinality(timers \cup fired) = Len(jobs)
    /\ \A jobId \in timers \cup fired : Matching(jobId) # {}

\* C15, amended: a POST /jobs that answers 201 sets, in the step that answers,
\* one timer for the id of the job it inserted, an id no timer was set for
\* before; a POST /jobs that answers 400 or 500 sets none; no other step sets
\* a timer. So the scheduled and the fired mock callbacks, together with the
\* creations whose insert is done and whose handler has not resumed yet, are
\* as many as the stored jobs, and each callback targets a stored job.
C15_OneCallbackPerCreate ==
    [][/\ (resp'.op = "create" /\ resp'.code = 201) =>
             /\ ObjectIdString(resp'.body.id) \notin timers \cup fired
             /\ timers' = timers \cup {ObjectIdString(resp'.body.id)}
       /\ ~(resp'.op = "create" /\ resp'.code = 201) => timers' \subseteq timers
       /\ timers' \cap fired' = {}
       /\ Cardinality(timers' \cup fired') + Cardinality(Inserted') = Len(jobs')
       /\ \A jobId \in timers' \cup fired' :
             \E k \in DOMAIN jobs' : ObjectIdString(k) = jobId]_vars

\* two jobs stored, the callback of one fired, that of the other pending, and
\* a third POST /jobs answered 500
C15_Witness ==
    /\ resp.op = "create"
    /\ resp.code = 500
    /\ Len(jobs) = 2
    /\ Cardinality(timers) = 1
    /\ Cardinality(fired) = 1

\* C16: every job that POST /jobs has stored is eventually COMPLETED, by the
\* mock worker's callback alone, whatever PORT and WEBHOOK_SECRET the process
\* was started with.
C16_EveryJobCompletes ==
    \A k \in 1 .. MaxJobs :
        (k \in DOMAIN jobs) ~>
            (k \in DOMAIN jobs /\ jobs[k].status = JobStatus.COMPLETED)

\* the storage step of r hands its handler ret
Hands(r, ret) ==
    \E r2 \in BagToSet(reqs') :
       /\ CopiesIn(r2, reqs') > CopiesIn(r2, reqs)
       /\ r2.op = r.op
       /\ r2.req = r.req
       /\ r2.ret = ret

\* C17: when the mock worker's callback fails (the fetch does not reach the
\* server, or the endpoint answers something else than 200), the failure is
\* logged and nothing else happens: the step that fails it and the storage
\* step that failed leave every job as it was, no timer is set again for the
\* job, and a job's status changes only in the update of an authorized
\* callback.
C17_MockFailureIsOnlyLogged ==
    [][/\ (resp'.origin = "mock" /\ resp'.code # 200) =>
             /\ resp'.log # "none"
             /\ jobs' = jobs
             /\ timers' \subseteq timers
             /\ resp'.req.jobId.s \notin timers'
             /\ resp'.req.jobId.s \in fired'
       /\ \A r \in BagToSet(reqs) :
             (/\ r.op = "callback"
              /\ r.pc = "Job.findByIdAndUpdate"
              /\ Steps(r)
              /\ \E e \in {"MongoError", "CastError"} : Hands(r, Throws(e))) =>
                jobs' = jobs
       /\ \A k \in DOMAIN jobs :
             jobs'[k].status # jobs[k].status =>
                \E r \in BagToSet(reqs) :
                   /\ r.op = "callback"
                   /\ r.pc = "Job.findByIdAndUpdate"
                   /\ Steps(r)
                   /\ ~Unauthorized(r.req)
                   /\ k \in Matching(r.req.jobId.s)]_vars

\* the endpoint answered the mock worker 500 for a job that is still PENDING,
\* and no timer is left for it
C17_Witness ==
    /\ resp.origin = "mock"
    /\ resp.op = "callback"
    /\ resp.code = 500
    /\ resp.req.jobId.s \in fired \ timers
    /\ \E k \in Matching(resp.req.jobId.s) : jobs[k].status = JobStatus.PENDING

\* C18: with several authorized callbacks for the same job in flight, the
\* pair (status, result) of a stored job is (PENDING, null) when the job is
\* inserted, and every step either leaves the pair as it is or is the update
\* of one authorized callback for that job and makes the pair (COMPLETED, the
\* result of that callback): the pair is always that of the update applied
\* last.
C18_LastWriteWins ==
    [][/\ \A k \in DOMAIN jobs' \ DOMAIN jobs :
             /\ jobs'[k].status = JobStatus.PENDING
             /\ jobs'[k].result = Null
       /\ \A k \in DOMAIN jobs :
             \/ /\ jobs'[k].status = jobs[k].status
                /\ jobs'[k].result = jobs[k].result
                /\ ~\E r \in BagToSet(reqs) :
                      /\ r.op = "callback"
                      /\ r.pc = "Job.findByIdAndUpdate"
                      /\ Steps(r)
                      /\ k \in Matching(r.req.jobId.s)
                      /\ r.req.result # jobs[k].result
             \/ \E r \in BagToSet(reqs) :
                   /\ r.op = "callback"
                   /\ r.pc = "Job.findByIdAndUpdate"
                   /\ Steps(r)
                   /\ ~Unauthorized(r.req)
                   /\ k \in Matching(r.req.jobId.s)
                   /\ jobs'[k].status = JobStatus.COMPLETED
                   /\ jobs'[k].result = r.req.result]_vars

\* two callbacks for the same job with different results have both updated it
\* and neither has answered yet; the stored result is that of one of them
C18_Witness ==
    \E r1, r2 \in InFlight :
       /\ r1.op = "callback" /\ r1.pc = "updated" /\ r1.ret.kind = "doc"
       /\ r2.op = "callback" /\ r2.pc = "updated" /\ r2.ret.kind = "doc"
       /\ r1.ret.doc.id = r2.ret.doc.id
       /\ r1.req.result # r2.req.result
       /\ jobs[r1.ret.doc.id].result = r2.req.result

C20_TimestampsOrdered ==
    [][/\ \A k \in DOMAIN jobs' : jobs'[k].createdAt <= jobs'[k].updatedAt
       /\ \A k \in DOMAIN jobs' \ DOMAIN jobs :
             jobs'[k].createdAt = jobs'[k].updatedAt
       /\ \A k \in DOMAIN jobs :
             /\ jobs'[k].createdAt = jobs[k].createdAt
             /\ jobs'[k].updatedAt >= jobs[k].updatedAt]_vars

\* C21: no two stored jobs have the same id; no step removes a job or changes
\* the id, the prompt or the createdAt of a stored job, so the ids only grow;
\* and the id a 201 returns is that of the stored job with the prompt and the
\* createdAt the 201 shows.
C21_IdsUniqueAndPermanent ==
    [][/\ \A i, j \in DOMAIN jobs' : i # j => jobs'[i].id # jobs'[j].id
       /\ \A k \in DOMAIN jobs :
             /\ k \in DOMAIN jobs'
             /\ jobs'[k].id = jobs[k].id
             /\ jobs'[k].prompt = jobs[k].prompt
             /\ jobs'[k].createdAt = jobs[k].createdAt
       /\ (resp'.op = "create" /\ resp'.code = 201) =>
             \E k \in DOMAIN jobs' :
                /\ jobs'[k].id = resp'.body.id
                /\ jobs'[k].prompt = resp'.body.prompt
                /\ jobs'[k].createdAt = resp'.body.createdAt]_vars

\* the second job gets its 201 after the first was completed and completed
\* again by the mock worker
C21_Witness ==
    /\ resp.op = "create"
    /\ resp.code = 201
    /\ resp.body.id = 2
    /\ Len(jobs) = 2
    /\ jobs[1].status = JobStatus.COMPLETED
    /\ ObjectIdString(1) \in fired

\* C22: the authenticator lets a callback request through exactly when its
\* x-webhook-secret header is present, is not empty, and is character for
\* character the configured secret: every request it let through (suspended
\* at the storage call, or answered by the handler) presented such a token,
\* and every request that presented one was not answered 401. A token in
\* another case, a prefix of the secret, or the secret between spaces is
\* denied.
Presented(req) ==
    /\ req.secret.t = "string"
    /\ Length(req.secret.s) > 0
    /\ req.secret.s = SHARED_SECRET.s

C22_AllowedIffExactSecret ==
    /\ \A r \in InFlight : r.op = "callback" => Presented(r.req)
    /\ resp.op = "callback" =>
          /\ (resp.code = 401) = ~Presented(resp.req)
          /\ (resp.code = 401) = (resp.trace = <<"validateWebhookSecret">>)

\* with a secret configured, a client's callback that presented it has
\* completed the first job, and the same secret between spaces is denied
C22_Witness ==
    /\ resp.op = "callback"
    /\ resp.code = 401
    /\ resp.req.secret.t = "string"
    /\ Trim(resp.req.secret.s) = SHARED_SECRET.s
    /\ env.WEBHOOK_SECRET = Str(otherSecret)
    /\ Len(jobs) > 0
    /\ jobs[1].result = Str(okResult)

\* C23: whether a callback request is denied depends on its token and on the
\* configured secret alone. In every state, a token that is denied with one
\* body is denied with every body; whatever a step does to the job store, a
\* token denied before it is denied after it, and a token let through before
\* it is let through after it; and the step in which the authenticator
\* decides changes no job and no configuration.
AuthBodies ==
    [jobId : {Undefined, Str(ObjectIdString(1)), Str(ObjectIdString(2))},
     result : {Undefined, Str(okResult)}]

NoBody == [jobId |-> Undefined, result |-> Undefined]

Denies(token, body) ==
    /\ PostCallback([secret |-> token, jobId |-> body.jobId, result |-> body.result])
    /\ resp'.code = 401

C23_DecisionDependsOnTokenAndSecret ==
    [][/\ \A token \in AuthHeaders : \A body \in AuthBodies :
             (ENABLED Denies(token, body)) = (ENABLED Denies(token, NoBody))
       /\ \A token \in AuthHeaders :
             (ENABLED Denies(token, NoBody)) = (ENABLED Denies(token, NoBody))'
       /\ env' = env
       /\ (resp'.op = "callback" /\ resp'.code = 401) =>
             UNCHANGED <<jobs, reqs, timers, fired>>
       /\ (\E r \in InFlight' :
              /\ r.pc = "Job.findByIdAndUpdate"
              /\ CopiesIn(r, reqs') > CopiesIn(r, reqs)) => jobs' = jobs]_vars

\* a token is denied while the store holds a completed job and a pending one,
\* after the same token was denied on the empty store
C23_Witness ==
    /\ resp.op = "callback"
    /\ resp.code = 401
    /\ resp.req.jobId = Str(ObjectIdString(1))
    /\ Len(jobs) = 2
    /\ jobs[1].status = JobStatus.COMPLETED
    /\ jobs[2].status = JobStatus.PENDING
    /\ env.WEBHOOK_SECRET = Str(otherSecret)

\* C24: the 200 of a callback carries id, prompt, status, result, createdAt
\* and updatedAt, the fields the 200 of GET /jobs/:id carries, with the values
\* the job has after the update.
C24_CompleteReturnsFullView ==
    (resp.op = "callback" /\ resp.code = 200) =>
        \E k \in DOMAIN jobs :
            /\ jobs[k].id = resp.body.id
            /\ DOMAIN resp.body = DOMAIN FullView(jobs[k])
            /\ resp.body.status = JobStatus.COMPLETED

\* C25: a storage call that fails leaves the store as it was, and the handler
\* that awaited it answers 500 with a body that has the one field error,
\* holding the fixed message of its route, and leaves the store and the timers
\* as they were: a failed Job.create stores no job and sets no timer, a failed
\* Job.findByIdAndUpdate changes no status and no result.
FailureMessage ==
    [create |-> "Failed to create job", callback |-> "Failed to update job",
     get |-> "Failed to fetch job", list |-> "Failed to fetch jobs"]

C25_StorageFailureIs500 ==
    [][/\ \A r \in InFlight :
             Hands(r, Throws("MongoError")) => UNCHANGED <<jobs, timers>>
       /\ \A r \in InFlight :
             (r.pc \in {"created", "updated", "found"} /\ Steps(r)
              /\ r.ret = Throws("MongoError")) =>
                /\ resp'.code = 500
                /\ resp'.op = r.op
                /\ resp'.req = r.req
                /\ resp'.body = [error |-> FailureMessage[r.op]]
                /\ UNCHANGED <<jobs, timers>>
       /\ resp'.log = "MongoError" =>
             /\ resp'.code = 500
             /\ UNCHANGED <<jobs, timers>>]_vars

\* the update of a stored, pending job failed and was answered 500, the job
\* still pending
C25_Witness ==
    /\ resp.op = "callback"
    /\ resp.code = 500
    /\ resp.log = "MongoError"
    /\ \E k \in Matching(resp.req.jobId.s) :
          jobs[k].status = JobStatus.PENDING /\ jobs[k].result = Null

\* C26: once a fetch has failed, the form stays disabled until a poll
\* succeeds: networkError does not go back to false in any other step, and
\* not while a poll is in flight.
C26_DisabledUntilPollSucceeds ==
    [][(app.networkError /\ ~app'.networkError) =>
          \E data \in AppLists : fetchJobsResume(200, data)]_vars

\* C27: the update of an authorized callback with result r on a job that is
\* already COMPLETED leaves its status COMPLETED, makes its result r and its
\* updatedAt the time of this callback, and is answered 200 with status
\* COMPLETED and result r; when the job's result was r already, as after the
\* same callback, the update leaves status and result as they were.
C27_CompletedJobIsOverwritten ==
    [][\A r \in InFlight :
          /\ (/\ r.op = "callback"
              /\ r.pc = "Job.findByIdAndUpdate"
              /\ Steps(r)) =>
                \A k \in Matching(r.req.jobId.s) :
                   jobs[k].status = JobStatus.COMPLETED =>
                      /\ jobs'[k].status = JobStatus.COMPLETED
                      /\ jobs'[k].result = r.req.result
                      /\ jobs'[k].updatedAt = r.at
                      /\ Hands(r, Doc(jobs'[k]))
                      /\ jobs[k].result = r.req.result =>
                            /\ jobs'[k].status = jobs[k].status
                            /\ jobs'[k].result = jobs[k].result
          /\ (/\ r.op = "callback"
              /\ r.pc = "updated"
              /\ Steps(r)
              /\ r.ret.kind = "doc") =>
                /\ resp'.code = 200
                /\ resp'.body.status = JobStatus.COMPLETED
                /\ resp'.body.result = r.req.result]_vars

\* the same callback, sent at two readings of the clock, has updated the job
\* twice: the job has its result and the time of the later one
C27_Witness ==
    \E r1, r2 \in InFlight :
       /\ r1.pc = "updated" /\ r2.pc = "updated"
       /\ r1.ret.kind = "doc" /\ r2.ret.kind = "doc"
       /\ r1.req = r2.req
       /\ r1.at < r2.at
       /\ r1.ret.doc.status = JobStatus.COMPLETED
       /\ jobs[r2.ret.doc.id] = r2.ret.doc
       /\ jobs[r2.ret.doc.id].result = r1.req.result
       /\ jobs[r2.ret.doc.id].updatedAt = r2.at

\* C28: the update of a callback changes nothing but the status, the result
\* and the updatedAt of the job its jobId names: that job keeps its id, prompt
\* and createdAt, every other job is as it was, and no job is added or
\* removed; and no step of GET /jobs/:id or GET /jobs, from the request to the
\* response, changes the store or the timers.
C28_CompleteChangesOnlyItsJob ==
    [][/\ \A r \in InFlight :
             (r.op = "callback" /\ Steps(r)) =>
                /\ DOMAIN jobs' = DOMAIN jobs
                /\ \A k \in DOMAIN jobs :
                      IF r.pc = "Job.findByIdAndUpdate" /\ k \in Matching(r.req.jobId.s)
                      THEN /\ jobs'[k].id = jobs[k].id
                           /\ jobs'[k].prompt = jobs[k].prompt
                           /\ jobs'[k].createdAt = jobs[k].createdAt
                      ELSE jobs'[k] = jobs[k]
       /\ \A r \in InFlight :
             (r.op \in {"get", "list"} /\ Steps(r)) => UNCHANGED <<jobs, timers>>
       /\ \A r \in InFlight' :
             (r.op \in {"get", "list"} /\ CopiesIn(r, reqs') > CopiesIn(r, reqs)) =>
                UNCHANGED <<jobs, timers>>
       /\ resp'.op \in {"get", "list"} => UNCHANGED <<jobs, timers>>]_vars

\* the second job has been completed while the first is as it was created
C28_Witness ==
    /\ Len(jobs) = 2
    /\ jobs[1] = NewJob(1, jobs[1].prompt, JobStatus.PENDING, jobs[1].createdAt)
    /\ \E r \in InFlight :
          /\ r.op = "callback"
          /\ r.pc = "updated"
          /\ r.ret.kind = "doc"
          /\ r.ret.doc.id = 2
          /\ jobs[2] = r.ret.doc

\* C29: every stored job has status PENDING or COMPLETED, no response shows
\* another status, and a job that is COMPLETED is not PENDING after any step.
C29_StatusPendingOrCompleted ==
    [][/\ \A k \in DOMAIN jobs' :
             jobs'[k].status \in {JobStatus.PENDING, JobStatus.COMPLETED}
       /\ \A k \in DOMAIN jobs :
             jobs[k].status = JobStatus.COMPLETED => jobs'[k].status # JobStatus.PENDING
       /\ resp'.code \in {200, 201} =>
             IF resp'.op = "list"
             THEN \A i \in DOMAIN resp'.body :
                     resp'.body[i].status \in {JobStatus.PENDING, JobStatus.COMPLETED}
             ELSE resp'.body.status \in {JobStatus.PENDING, JobStatus.COMPLETED}]_vars

\* the first job was completed by the client and again by the mock worker,
\* the second job is pending, and GET /jobs has just shown both
C29_Witness ==
    /\ Len(jobs) = 2
    /\ acked # Null
    /\ acked.id = 1
    /\ ObjectIdString(1) \in fired
    /\ jobs[1].status = JobStatus.COMPLETED
    /\ jobs[1].result # acked.result
    /\ jobs[2].status = JobStatus.PENDING
    /\ resp.op = "list"
    /\ resp.code = 200

\* C30: POST /jobs answers 201 in the step that sets the timer, with the timer
\* still pending and no callback of the mock worker for that job sent yet; a
\* timer fires only for a job that is stored and whose POST /jobs has
\* answered; so the update of a mock callback always finds its job, and no
\* mock callback is answered 404.
C30_MockCallbackAfterCreate ==
    [][/\ (resp'.op = "create" /\ resp'.code = 201) =>
             /\ ObjectIdString(resp'.body.id) \in timers' \ timers
             /\ ObjectIdString(resp'.body.id) \notin fired'
             /\ \A r \in InFlight' :
                   (r.op = "callback" /\ r.origin = "mock") =>
                      r.req.jobId # Str(ObjectIdString(resp'.body.id))
       /\ \A jobId \in fired' \ fired :
             /\ Matching(jobId) # {}
             /\ \A r \in InFlight :
                   r.op = "create" =>
                      \/ r.pc # "created"
                      \/ r.ret.kind # "doc"
                      \/ ObjectIdString(r.ret.doc.id) # jobId
       /\ \A r \in InFlight' :
             (r.op = "callback" /\ r.origin = "mock" /\ r.pc = "updated") =>
                r.ret # NoDoc
       /\ resp'.origin = "mock" => resp'.code # 404]_vars

\* the timer of the second job has fired and its callback has updated the
\* job, while the timer of the first job is still pending
C30_Witness ==
    /\ Len(jobs) = 2
    /\ ObjectIdString(1) \in timers
    /\ ObjectIdString(2) \in fired
    /\ \E r \in InFlight :
          /\ r.op = "callback"
          /\ r.origin = "mock"
          /\ r.pc = "updated"
          /\ r.ret = Doc(jobs[2])

\* C31: a timer that is set is never cancelled: it leaves the set of pending
\* timers only by firing, it fires, and it never fires again; and when it
\* fires for a job that a client has completed by hand, the job's result
\* becomes the one the mock worker sends.
ByMock(k) ==
    /\ k \in DOMAIN jobs
    /\ ObjectIdString(k) \in fired
    /\ \E t \in Times : jobs[k].result = Str(MockResult(ObjectIdString(k), t))

C31_MockAttemptOverwrites ==
    /\ [][/\ timers \ timers' \subseteq fired' \ fired
          /\ fired \subseteq fired'
          /\ timers' \cap fired' = {}]_vars
    /\ \A k \in 1 .. MaxJobs :
          (ObjectIdString(k) \in timers) ~> (ObjectIdString(k) \in fired)
    /\ \A k \in 1 .. MaxJobs :
          (ObjectIdString(k) \in timers /\ jobs[k].result = Str(okResult)) ~> ByMock(k)

\* C32: whether WEBHOOK_SECRET is set, unset or empty in the environment, the
\* secret the mock worker sends is the one the authenticator compares with:
\* every callback of the mock worker passes the middleware, and none is
\* answered 401.
C32_MockSecretIsAccepted ==
    /\ WEBHOOK_SECRET = SHARED_SECRET
    /\ \A r \in InFlight :
          (r.op = "callback" /\ r.origin = "mock") => r.req.secret = SHARED_SECRET
    /\ (resp.origin = "mock" /\ resp.op = "callback") =>
          /\ resp.code # 401
          /\ resp.trace # <<"validateWebhookSecret">>

\* with WEBHOOK_SECRET empty in the environment, a callback of the mock worker
\* was answered 200
C32_Witness ==
    /\ env.WEBHOOK_SECRET = Str(<<>>)
    /\ resp.origin = "mock"
    /\ resp.op = "callback"
    /\ resp.code = 200
    /\ resp.req.secret = Str(devSecretKey)

\* C33: every request gets one response. A request is either answered in the
\* step that receives it (400, or 401 by the middleware alone, which then runs
\* no handler) or suspended at its storage call without a response; a storage
\* step sends no response; the continuation sends the response of its request
\* and ends it, so that it cannot respond again; and every suspended request
\* has a step to take, so that none stays unanswered.
StorageCalls == {"Job.create", "Job.findByIdAndUpdate", "Job.findById", "Job.find"}

Continuations == {"created", "updated", "found"}

Moves(r) ==
    \/ \E fails \in BOOLEAN :
          \/ JobCreate(r, fails)
          \/ FindByIdAndUpdate(r, fails)
          \/ FindById(r, fails)
          \/ Find(r, fails)
    \/ PostJobsResume(r)
    \/ PostCallbackResume(r)
    \/ GetJobResume(r)
    \/ GetJobsResume(r)

Answers == resp'.code # 0

C33_ExactlyOneResponse ==
    [][/\ \A r \in InFlight : r.pc \in StorageCalls \cup Continuations /\ ENABLED Moves(r)
       /\ BagCardinality(reqs') > BagCardinality(reqs) =>
             /\ ~Answers
             /\ \E r \in InFlight' :
                   /\ r.pc \in StorageCalls
                   /\ reqs' = reqs (+) SetToBag({r})
       /\ (BagCardinality(reqs') = BagCardinality(reqs) /\ reqs' # reqs) =>
             /\ ~Answers
             /\ \E r \in InFlight, r2 \in InFlight' :
                   /\ r.pc \in StorageCalls
                   /\ r2.pc \in Continuations
                   /\ reqs' = (reqs (-) SetToBag({r})) (+) SetToBag({r2})
       /\ BagCardinality(reqs') < BagCardinality(reqs) =>
             /\ Answers
             /\ \E r \in InFlight :
                   /\ r.pc \in Continuations
                   /\ reqs' = reqs (-) SetToBag({r})
                   /\ resp'.op = r.op
                   /\ resp'.req = r.req
       /\ (Answers /\ reqs' = reqs) =>
             /\ resp'.code \in {400, 401}
             /\ \A i \in DOMAIN resp'.trace : resp'.trace[i] \notin StorageCalls
             /\ resp'.code = 401 => resp'.trace = <<"validateWebhookSecret">>
       /\ (Answers /\ resp'.code \notin {400, 401}) =>
             resp'.trace[Len(resp'.trace)] \in StorageCalls]_vars

\* a client's callback for a malformed id was answered 500 while a callback
\* of the mock worker is suspended
C33_Witness ==
    /\ resp.op = "callback"
    /\ resp.code = 500
    /\ resp.log = "CastError"
    /\ reqs # EmptyBag
    /\ Len(jobs) > 0

\* C34: the server listens only from a step in which a connection attempt
\* succeeds; an attempt is made only after fewer than 30 failures, so there
\* are at most 30; the process exits only in the step of the 30th failure,
\* with code 1, never having listened and without a delay after that
\* failure; once it listens or has exited startServer does nothing more; and
\* startServer always gets there.
C34_StartupTerminates ==
    /\ [][/\ (boot'.listening /\ ~boot.listening) =>
                (boot.pc = "connecting" /\ boot'.pc = "listening")
          /\ boot'.pc = "connecting" => boot'.retries < maxRetries
          /\ boot'.retries <= maxRetries
          /\ boot'.pc = "exited" =>
                /\ boot.pc = "connecting"
                /\ boot.retries = maxRetries - 1
                /\ boot'.retries = maxRetries
                /\ boot'.exitCode = Num(1)
                /\ ~boot'.listening
          /\ boot'.pc = "delay" =>
                /\ boot'.retries < maxRetries
                /\ boot'.delay = Delay(boot'.retries)
          /\ boot.pc \notin {"listening", "exited"}]_vars
    /\ <>(boot.pc \in {"listening", "exited"})

\* the 30th attempt has failed and the process has exited; the last delay,
\* after the 29th failure, was the longest one
C34_Witness ==
    /\ boot.pc = "exited"
    /\ boot.retries = maxRetries
    /\ boot.delay = maxDelay
    /\ boot.exitCode = Num(1)
    /\ ~boot.listening

\* C35: a job the list on display shows as COMPLETED is on the next list on
\* display, and COMPLETED there, whether that list comes from a poll or from
\* a submission.
C35_DisplayKeepsCompleted ==
    [][\A i \in DOMAIN app.jobs :
          app.jobs[i].status = JobStatus.COMPLETED =>
             \E j \in DOMAIN app'.jobs :
                /\ app'.jobs[j].id = app.jobs[i].id
                /\ app'.jobs[j].status = JobStatus.COMPLETED]_vars

====
